---- MODULE Spec2Model ----
(***************************************************************************)
(* Model of telegram_football_alert_bot.py: the poll loop                   *)
(* (background_task), one poll pass (analyze_matches), the two data-source  *)
(* calls, the statistics extraction loop and compute_goal_probability.      *)
(*                                                                          *)
(* Numbers are fixed point.  Expected goals are counted in hundredths       *)
(* (xG 1.5 is 150), shots and attacks are plain counts, and a probability   *)
(* is counted in ten-thousandths (0.975 is 9750), so that "{prob:.2%}"      *)
(* prints prob \div 100 before the point and prob % 100 after it.           *)
(***************************************************************************)
EXTENDS Integers, Sequences, FiniteSets, TLC

VARIABLES
    pc,                 \* position of the program / of background_task
    creds,              \* which of the three required environment values are set
    DEFAULT_THRESHOLD,  \* module global read from the environment at import
    tasks,              \* number of background_task coroutines created
    passNo,             \* passes started (calls of analyze_matches)
    endedNo,            \* passes that returned or raised
    sleepNo,            \* completed asyncio.sleep(POLL_SECONDS) calls
    matches,            \* analyze_matches: the list returned by fetch_live_matches
    idx,                \* analyze_matches: position of the for loop in matches
    real_stats,         \* analyze_matches: the six-field record of the current match
    prob,               \* analyze_matches: result of compute_goal_probability
    message,            \* analyze_matches: the text handed to send_message
    sent,               \* messages delivered by send_message in this pass
    results,            \* per processed match of this pass: fetch outcome, record, probability
    raised,             \* what the current pass raised, "none" if nothing
    prevRaised,         \* what the pass before the current one raised
    alerted,            \* fixture ids notified in passes before the current one
    calls,              \* network calls issued in this pass, per kind
    liveKind,           \* outcome of this pass's fetch_live_matches call
    payload,            \* extraction: stats_response being walked
    bi,                 \* extraction: index of the team block (outer for loop)
    si                  \* extraction: index of the stat entry (inner for loop)

vars == <<pc, creds, DEFAULT_THRESHOLD, tasks, passNo, endedNo, sleepNo, matches,
          idx, real_stats, prob, message, sent, results, raised, prevRaised, alerted, calls,
          liveKind, payload, bi, si>>

----------------------------------------------------------------------------
(* Bounds *)

MaxPasses == 2
MaxMatches == 2
MaxBlocks == 2
MaxStats == 1
MaxShots == 4

----------------------------------------------------------------------------
(* Values on the wire and in the record *)

Null == [tag |-> "null", n |-> 0]
Str == [tag |-> "str", n |-> 0]
Num(n) == [tag |-> "num", n |-> n]

OrZeroKeepNull(v) == v

\* s["value"] or 0
OrZero(v) == IF v.tag = "null" \/ (v.tag = "num" /\ v.n = 0) THEN Num(0) ELSE v

ProbOne == 10000

Min(a, b) == IF a <= b THEN a ELSE b

ZeroStats ==
    [xG_home |-> Num(0), xG_away |-> Num(0),
     shots_on_home |-> Num(0), shots_on_away |-> Num(0),
     attacks_home |-> Num(0), attacks_away |-> Num(0)]

FieldNames == {"xG_home", "xG_away", "shots_on_home", "shots_on_away",
               "attacks_home", "attacks_away"}

Numeric(stats) == \A f \in FieldNames : stats[f].tag = "num"

----------------------------------------------------------------------------
(* compute_goal_probability *)

ScoreOfWeightsSwapped(stats) ==
    LET s1 == (stats.xG_home.n + stats.xG_away.n) * 50
        s2 == s1 + (stats.shots_on_home.n + stats.shots_on_away.n) * 100
        s3 == s2 + (stats.attacks_home.n + stats.attacks_away.n) * 500
    IN  s3

ScoreOf(stats) ==
    LET s1 == (stats.xG_home.n + stats.xG_away.n) * 50
        s2 == s1 + (stats.shots_on_home.n + stats.shots_on_away.n) * 500
        s3 == s2 + (stats.attacks_home.n + stats.attacks_away.n) * 100
    IN  s3

compute_goal_probability_unclamped(stats) == ScoreOf(stats) \div 2

compute_goal_probability_xg_difference(stats) ==
    Min((ScoreOf(stats) - 100 * stats.xG_away.n) \div 2, ProbOne)

compute_goal_probability(stats) == Min(ScoreOf(stats) \div 2, ProbOne)

ShouldAlertStrict(p, threshold) == p > threshold

\* prob >= DEFAULT_THRESHOLD
ShouldAlert(p, threshold) == p >= threshold

\* f"{prob:.2%}"
FormatPercent(p) == [whole |-> p \div 100, frac |-> p % 100]

BuildMessage(match, p, stats) ==
    [home |-> match.home, away |-> match.away, pct |-> FormatPercent(p), stats |-> stats]

NoMessage == [home |-> "", away |-> "", pct |-> FormatPercent(0), stats |-> ZeroStats]

DecideOncePerFixture(match, stats, threshold) ==
    LET p == compute_goal_probability(stats)
        fresh == match.id \notin alerted
    IN  [prob |-> p,
         alert |-> ShouldAlert(p, threshold) /\ fresh,
         message |-> IF ShouldAlert(p, threshold) /\ fresh THEN BuildMessage(match, p, stats)
                     ELSE NoMessage]

\* analyze_matches, lines 111-118: score one record and decide whether to alert
Decide(match, stats, threshold) ==
    LET p == compute_goal_probability(stats)
    IN  [prob |-> p,
         alert |-> ShouldAlert(p, threshold),
         message |-> IF ShouldAlert(p, threshold) THEN BuildMessage(match, p, stats)
                     ELSE NoMessage]

----------------------------------------------------------------------------
(* Data returned by the data source *)

Teams == {"A", "B", "C"}

FirstFixture == [id |-> 1, home |-> "A", away |-> "B", wf |-> TRUE]

Fixtures == {FirstFixture, [id |-> 2, home |-> "B", away |-> "C", wf |-> TRUE]}

\* an element of the live list without the "fixture" / "teams" keys
BadMatch == [id |-> 0, home |-> "", away |-> "", wf |-> FALSE]

RECURSIVE SeqsUpTo(_, _)
SeqsUpTo(S, n) ==
    IF n = 0 THEN {<<>>}
    ELSE LET shorter == SeqsUpTo(S, n - 1)
         IN  shorter \cup {Append(q, x) : q \in {r \in shorter : Len(r) = n - 1}, x \in S}

MatchLists == SeqsUpTo(Fixtures \cup {BadMatch}, MaxMatches)

StatTypes == {"Shots on Goal", "Attacks", "xG", "Fouls"}

\* a team block without the "team" key
BadBlock == [team |-> "", statistics |-> <<>>, wf |-> FALSE]

Entries(values) == [type : StatTypes, value : values]

Blocks(values, ns) ==
    {[team |-> t, statistics |-> st, wf |-> TRUE] :
        t \in Teams, st \in SeqsUpTo(Entries(values), ns)} \cup {BadBlock}

\* the statistics payloads walked by the extraction specification
Payloads == SeqsUpTo(Blocks({Null, Num(2)}, MaxStats), MaxBlocks)

\* the statistics payloads a poll pass can receive
PassEntries ==
    {[type |-> "xG", value |-> Num(280)], [type |-> "xG", value |-> Str],
     [type |-> "Shots on Goal", value |-> Null], [type |-> "Shots on Goal", value |-> Num(12)],
     [type |-> "Shots on Goal", value |-> Str],
     [type |-> "Attacks", value |-> Num(250)], [type |-> "Fouls", value |-> Num(9)]}

StatsBodies ==
    {<<>>, <<BadBlock>>} \cup
    {<<[team |-> t, statistics |-> <<e>>, wf |-> TRUE]>> : t \in Teams, e \in PassEntries}

\* a body whose record scores 1.0
HighBody ==
    <<[team |-> "A", statistics |-> <<[type |-> "Attacks", value |-> Num(250)]>>, wf |-> TRUE]>>

\* float(os.getenv("DEFAULT_THRESHOLD", 0.7)): any number the environment gives,
\* 1.5 and -0.1 included
Thresholds == {0 - 1000, 0, 7000, 10000, 15000}

----------------------------------------------------------------------------
(* analyze_matches, lines 82-100: the extraction loop *)

ApplyEntryAlwaysHome(loc, team_name, s, home) ==
    LET side(h, a) == h
        v == OrZero(s.value)
    IN  IF s.type = "Shots on Goal"
        THEN [loc EXCEPT !.stats[side("shots_on_home", "shots_on_away")] = v]
        ELSE IF s.type = "Attacks"
        THEN [loc EXCEPT !.stats[side("attacks_home", "attacks_away")] = v]
        ELSE IF s.type = "xG"
        THEN IF v.tag = "str"
             THEN [loc EXCEPT !.err = "bad_stats"]
             ELSE [loc EXCEPT !.stats[side("xG_home", "xG_away")] = v]
        ELSE loc

ApplyEntryAccumulate(loc, team_name, s, home) ==
    LET side(h, a) == IF team_name = home THEN h ELSE a
        v == OrZero(s.value)
        add(f) == [loc EXCEPT !.stats[f] = Num(loc.stats[f].n + v.n)]
    IN  IF s.type = "Shots on Goal" THEN add(side("shots_on_home", "shots_on_away"))
        ELSE IF s.type = "Attacks" THEN add(side("attacks_home", "attacks_away"))
        ELSE IF s.type = "xG"
        THEN IF v.tag = "str"
             THEN [loc EXCEPT !.err = "bad_stats"]
             ELSE add(side("xG_home", "xG_away"))
        ELSE loc

\* the body of the inner for loop; loc is [stats, err]
ApplyEntry(loc, team_name, s, home) ==
    LET side(h, a) == IF team_name = home THEN h ELSE a
        v == OrZero(s.value)
    IN  IF s.type = "Shots on Goal"
        THEN [loc EXCEPT !.stats[side("shots_on_home", "shots_on_away")] = v]
        ELSE IF s.type = "Attacks"
        THEN [loc EXCEPT !.stats[side("attacks_home", "attacks_away")] = v]
        ELSE IF s.type = "xG"
        THEN IF v.tag = "str"
             THEN [loc EXCEPT !.err = "bad_stats"]
             ELSE [loc EXCEPT !.stats[side("xG_home", "xG_away")] = v]
        ELSE loc

RECURSIVE ExtractEntries(_, _, _, _)
ExtractEntries(loc, team_name, st, home) ==
    IF st = <<>> \/ loc.err # "none" THEN loc
    ELSE ExtractEntries(ApplyEntry(loc, team_name, Head(st), home), team_name, Tail(st), home)

RECURSIVE ExtractBlocks(_, _, _)
ExtractBlocks(loc, body, home) ==
    IF body = <<>> \/ loc.err # "none" THEN loc
    ELSE IF ~Head(body).wf THEN [loc EXCEPT !.err = "bad_stats"]
    ELSE ExtractBlocks(ExtractEntries(loc, Head(body).team, Head(body).statistics, home),
                       Tail(body), home)

Extract(body, home) == ExtractBlocks([stats |-> ZeroStats, err |-> "none"], body, home)

----------------------------------------------------------------------------
(* The poll loop and one poll pass *)

InPass == {"await_live", "await_stats", "await_send"}

NoCalls == [live |-> 0, stats |-> 0, send |-> 0]

AfterRaiseCrash == "crashed"

\* background_task, lines 127-129: where the loop goes when the pass raised
AfterRaise == "sleeping"

AfterReturnExit == "exited"

\* background_task, line 129: where the loop goes when the pass returned
AfterReturn == "sleeping"

LoopReadyEarly == pc \in {"sleeping"} \cup InPass

\* background_task, line 124: the loop is back at its top
LoopReady == pc = "sleeping"

AdvanceSkipOne(ms, k) ==
    LET j == IF k + 1 <= Len(ms) THEN k + 1 ELSE k
    IN  IF j > Len(ms)
        THEN [pc |-> AfterReturn, idx |-> Len(ms), raised |-> "none", ended |-> 1, fetch |-> 0]
        ELSE IF ~ms[j].wf
        THEN [pc |-> AfterRaise, idx |-> j, raised |-> "bad_match", ended |-> 1, fetch |-> 0]
        ELSE [pc |-> "await_stats", idx |-> j, raised |-> "none", ended |-> 0, fetch |-> 1]

AdvancePrefetch(ms, k) ==
    IF k > Len(ms)
    THEN [pc |-> AfterReturn, idx |-> Len(ms), raised |-> "none", ended |-> 1, fetch |-> 0]
    ELSE IF ~ms[k].wf
    THEN [pc |-> AfterRaise, idx |-> k, raised |-> "bad_match", ended |-> 1, fetch |-> 0]
    ELSE [pc |-> "await_stats", idx |-> k, raised |-> "none", ended |-> 0,
          fetch |-> IF k < Len(ms) THEN 2 ELSE 1]

\* analyze_matches, lines 69-73: the for loop moves to position k of ms
Advance(ms, k) ==
    IF k > Len(ms)
    THEN [pc |-> AfterReturn, idx |-> Len(ms), raised |-> "none", ended |-> 1, fetch |-> 0]
    ELSE IF ~ms[k].wf
    THEN [pc |-> AfterRaise, idx |-> k, raised |-> "bad_match", ended |-> 1, fetch |-> 0]
    ELSE [pc |-> "await_stats", idx |-> k, raised |-> "none", ended |-> 0, fetch |-> 1]

\* analyze_matches is called and issues fetch_live_matches
StartPass ==
    /\ passNo < MaxPasses
    /\ pc' = "await_live"
    /\ passNo' = passNo + 1
    /\ matches' = <<>>
    /\ idx' = 0
    /\ real_stats' = ZeroStats
    /\ prob' = 0
    /\ message' = NoMessage
    /\ sent' = <<>>
    /\ results' = <<>>
    /\ raised' = "none"
    /\ prevRaised' = raised
    /\ alerted' = alerted \cup {matches[sent[j].idx].id : j \in DOMAIN sent}
    /\ calls' = [NoCalls EXCEPT !.live = 1]
    /\ liveKind' = "pending"
    /\ UNCHANGED <<creds, DEFAULT_THRESHOLD, tasks, endedNo, payload, bi, si>>

MainWithoutChatIdCheck ==
    /\ pc = "start"
    /\ IF creds.TELEGRAM_BOT_TOKEN /\ creds.API_FOOTBALL_KEY
       THEN pc' = "task_created" /\ tasks' = tasks + 1
       ELSE pc' = "config_error" /\ tasks' = tasks
    /\ UNCHANGED <<creds, DEFAULT_THRESHOLD, passNo, endedNo, sleepNo, matches, idx,
                   real_stats, prob, message, sent, results, raised, prevRaised, alerted, calls,
                   liveKind, payload, bi, si>>

\* main, lines 132-144
Main ==
    /\ pc = "start"
    /\ IF creds.TELEGRAM_BOT_TOKEN /\ creds.API_FOOTBALL_KEY /\ creds.TELEGRAM_CHAT_ID
       THEN pc' = "task_created" /\ tasks' = tasks + 1
       ELSE pc' = "config_error" /\ tasks' = tasks
    /\ UNCHANGED <<creds, DEFAULT_THRESHOLD, passNo, endedNo, sleepNo, matches, idx,
                   real_stats, prob, message, sent, results, raised, prevRaised, alerted, calls,
                   liveKind, payload, bi, si>>

\* background_task starts running: first pass
TaskStart ==
    /\ pc = "task_created"
    /\ StartPass
    /\ UNCHANGED sleepNo

\* asyncio.sleep(POLL_SECONDS) returns and the loop starts the next pass
SleepReturn ==
    /\ LoopReady
    /\ sleepNo' = sleepNo + 1
    /\ StartPass

RaiseLogAndContinue(cause) ==
    /\ pc' = IF pc = "await_live" THEN AfterRaise ELSE "await_stats"
    /\ raised' = cause
    /\ endedNo' = IF pc = "await_live" THEN endedNo + 1 ELSE endedNo

\* the pass raised and background_task caught it
Raise(cause) ==
    /\ pc' = AfterRaise
    /\ raised' = cause
    /\ endedNo' = endedNo + 1

\* what session.get can bring back: a transport error, or a status with a JSON body
LiveResponses ==
    {[kind |-> "transport", body |-> <<>>]} \cup
    {[kind |-> "status", body |-> b] : b \in {<<>>, <<FirstFixture>>}} \cup
    {[kind |-> "ok", body |-> b] : b \in MatchLists}

fetch_live_matches_any_status(resp) ==
    IF resp.kind = "transport" THEN [raised |-> TRUE, value |-> <<>>]
    ELSE [raised |-> FALSE, value |-> resp.body]

\* fetch_live_matches, lines 20-30: the list the call yields, or that it raised
fetch_live_matches(resp) ==
    IF resp.kind = "transport" THEN [raised |-> TRUE, value |-> <<>>]
    ELSE IF resp.kind = "status" THEN [raised |-> FALSE, value |-> <<>>]
    ELSE [raised |-> FALSE, value |-> resp.body]

\* fetch_live_matches returns into analyze_matches, lines 68-73
LiveReturn(resp) ==
    /\ pc = "await_live"
    /\ liveKind' = resp.kind
    /\ LET r == fetch_live_matches(resp)
           a == Advance(r.value, 1)
       IN  IF r.raised
           THEN /\ Raise("live_transport")
                /\ UNCHANGED <<matches, idx, calls>>
           ELSE /\ matches' = r.value
                /\ pc' = a.pc
                /\ idx' = a.idx
                /\ raised' = a.raised
                /\ endedNo' = endedNo + a.ended
                /\ calls' = [calls EXCEPT !.stats = @ + a.fetch]
    /\ UNCHANGED <<creds, DEFAULT_THRESHOLD, tasks, passNo, sleepNo, real_stats, prob,
                   message, sent, results, prevRaised, alerted, payload, bi, si>>

StatsResponses ==
    {[kind |-> "transport", body |-> <<>>]} \cup
    {[kind |-> "status", body |-> b] : b \in {<<>>, HighBody}} \cup
    {[kind |-> "ok", body |-> b] : b \in StatsBodies}

fetch_match_statistics_any_status(resp) ==
    IF resp.kind = "transport" THEN [raised |-> TRUE, value |-> <<>>]
    ELSE [raised |-> FALSE, value |-> resp.body]

\* fetch_match_statistics, lines 32-42
fetch_match_statistics(resp) ==
    IF resp.kind = "transport" THEN [raised |-> TRUE, value |-> <<>>]
    ELSE IF resp.kind = "status" THEN [raised |-> FALSE, value |-> <<>>]
    ELSE [raised |-> FALSE, value |-> resp.body]

\* fetch_match_statistics returns into analyze_matches, lines 73-119
StatsReturn(resp) ==
    /\ pc = "await_stats"
    /\ LET r == fetch_match_statistics(resp)
           loc == Extract(r.value, matches[idx].home)
           d == Decide(matches[idx], loc.stats, DEFAULT_THRESHOLD)
           a == Advance(matches, idx + 1)
       IN  IF r.raised
           THEN /\ Raise("stats_transport")
                /\ UNCHANGED <<idx, real_stats, prob, message, results, calls>>
           ELSE IF loc.err # "none"
           THEN /\ Raise(loc.err)
                /\ real_stats' = loc.stats
                /\ UNCHANGED <<idx, prob, message, results, calls>>
           ELSE IF ~Numeric(loc.stats)
           THEN /\ Raise("score_error")
                /\ real_stats' = loc.stats
                /\ UNCHANGED <<idx, prob, message, results, calls>>
           ELSE /\ real_stats' = loc.stats
                /\ prob' = d.prob
                /\ results' = Append(results, [kind |-> resp.kind, stats |-> loc.stats,
                                               prob |-> d.prob])
                /\ IF d.alert
                   THEN /\ message' = d.message
                        /\ pc' = "await_send"
                        /\ calls' = [calls EXCEPT !.send = @ + 1]
                        /\ UNCHANGED <<idx, raised, endedNo>>
                   ELSE /\ pc' = a.pc
                        /\ idx' = a.idx
                        /\ raised' = a.raised
                        /\ endedNo' = endedNo + a.ended
                        /\ calls' = [calls EXCEPT !.stats = @ + a.fetch]
                        /\ UNCHANGED message
    /\ UNCHANGED <<creds, DEFAULT_THRESHOLD, tasks, passNo, sleepNo, matches, sent,
                   prevRaised, alerted, liveKind, payload, bi, si>>

\* app.bot.send_message returns into analyze_matches, line 119, and the loop goes on
SendReturn(ok) ==
    /\ pc = "await_send"
    /\ LET a == Advance(matches, idx + 1)
       IN  IF ok
           THEN /\ sent' = Append(sent, [idx |-> idx, text |-> message])
                /\ pc' = a.pc
                /\ idx' = a.idx
                /\ raised' = a.raised
                /\ endedNo' = endedNo + a.ended
                /\ calls' = [calls EXCEPT !.stats = @ + a.fetch]
           ELSE /\ Raise("send_error")
                /\ UNCHANGED <<sent, idx, calls>>
    /\ UNCHANGED <<creds, DEFAULT_THRESHOLD, tasks, passNo, sleepNo, matches, real_stats,
                   prob, message, results, prevRaised, alerted, liveKind, payload, bi, si>>

Init ==
    /\ pc = "start"
    /\ creds \in [{"TELEGRAM_BOT_TOKEN", "API_FOOTBALL_KEY", "TELEGRAM_CHAT_ID"} -> BOOLEAN]
    /\ DEFAULT_THRESHOLD \in Thresholds
    /\ tasks = 0
    /\ passNo = 0
    /\ endedNo = 0
    /\ sleepNo = 0
    /\ matches = <<>>
    /\ idx = 0
    /\ real_stats = ZeroStats
    /\ prob = 0
    /\ message = NoMessage
    /\ sent = <<>>
    /\ results = <<>>
    /\ raised = "none"
    /\ prevRaised = "none"
    /\ alerted = {}
    /\ calls = NoCalls
    /\ liveKind = "none"
    /\ payload = <<>>
    /\ bi = 0
    /\ si = 0

Next ==
    \/ Main
    \/ TaskStart
    \/ SleepReturn
    \/ \E resp \in LiveResponses : LiveReturn(resp)
    \/ \E resp \in StatsResponses : StatsReturn(resp)
    \/ \E ok \in BOOLEAN : SendReturn(ok)

Spec == Init /\ [][Next]_vars

----------------------------------------------------------------------------
(* compute_goal_probability and the alert decision applied to one record *)

XGValues == {0, 50, 100, 200, 300}
ShotsValues == (0 - 1) .. MaxShots
AttacksValues == {0, 5, 10}

ScoreInputs ==
    {[xG_home |-> Num(xh), xG_away |-> Num(xa),
      shots_on_home |-> Num(sh), shots_on_away |-> Num(sa),
      attacks_home |-> Num(ah), attacks_away |-> Num(aa)] :
        xh \in XGValues, xa \in XGValues, sh \in ShotsValues, sa \in ShotsValues,
        ah \in AttacksValues, aa \in AttacksValues}

InitScore ==
    /\ pc = "score_call"
    /\ creds = [c \in {"TELEGRAM_BOT_TOKEN", "API_FOOTBALL_KEY", "TELEGRAM_CHAT_ID"} |-> TRUE]
    /\ DEFAULT_THRESHOLD \in Thresholds
    /\ tasks = 1
    /\ passNo = 1
    /\ endedNo = 0
    /\ sleepNo = 0
    /\ matches = <<FirstFixture>>
    /\ idx = 1
    /\ real_stats \in ScoreInputs
    /\ prob = 0
    /\ message = NoMessage
    /\ sent = <<>>
    /\ results = <<>>
    /\ raised = "none"
    /\ prevRaised = "none"
    /\ alerted = {}
    /\ calls = [live |-> 1, stats |-> 1, send |-> 0]
    /\ liveKind = "ok"
    /\ payload = <<>>
    /\ bi = 0
    /\ si = 0

\* analyze_matches, lines 111-118 on the record drawn by InitScore
ScoreRecord ==
    /\ pc = "score_call"
    /\ LET d == Decide(matches[idx], real_stats, DEFAULT_THRESHOLD)
       IN  /\ prob' = d.prob
           /\ message' = d.message
           /\ pc' = IF d.alert THEN "score_alert" ELSE "score_quiet"
    /\ UNCHANGED <<creds, DEFAULT_THRESHOLD, tasks, passNo, endedNo, sleepNo, matches, idx,
                   real_stats, sent, results, raised, prevRaised, alerted, calls, liveKind, payload,
                   bi, si>>

NextScore == ScoreRecord

SpecScore == InitScore /\ [][NextScore]_vars

----------------------------------------------------------------------------
(* The extraction loop walked one entry at a time over one payload *)

InitExtract ==
    /\ pc = "extract"
    /\ creds = [c \in {"TELEGRAM_BOT_TOKEN", "API_FOOTBALL_KEY", "TELEGRAM_CHAT_ID"} |-> TRUE]
    /\ DEFAULT_THRESHOLD = 7000
    /\ tasks = 1
    /\ passNo = 1
    /\ endedNo = 0
    /\ sleepNo = 0
    /\ \E m \in Fixtures : matches = <<m>>
    /\ idx = 1
    /\ real_stats = ZeroStats
    /\ prob = 0
    /\ message = NoMessage
    /\ sent = <<>>
    /\ results = <<>>
    /\ raised = "none"
    /\ prevRaised = "none"
    /\ alerted = {}
    /\ calls = [live |-> 1, stats |-> 1, send |-> 0]
    /\ liveKind = "ok"
    /\ payload \in Payloads
    /\ bi = 1
    /\ si = 0

ExtractUnchanged ==
    UNCHANGED <<creds, DEFAULT_THRESHOLD, tasks, passNo, endedNo, sleepNo, matches, idx,
                prob, message, sent, results, prevRaised, alerted, calls, liveKind, payload>>

\* lines 82-84: the outer loop takes the next team block
EnterBlock ==
    /\ pc = "extract"
    /\ bi <= Len(payload)
    /\ si = 0
    /\ IF payload[bi].wf
       THEN si' = 1 /\ UNCHANGED <<pc, raised>>
       ELSE pc' = "extract_raised" /\ raised' = "bad_stats" /\ UNCHANGED si
    /\ UNCHANGED <<bi, real_stats>>
    /\ ExtractUnchanged

\* lines 85-100: the inner loop handles one stat entry
ExtractEntry ==
    /\ pc = "extract"
    /\ bi <= Len(payload)
    /\ si >= 1
    /\ si <= Len(payload[bi].statistics)
    /\ LET loc == ApplyEntry([stats |-> real_stats, err |-> "none"], payload[bi].team,
                             payload[bi].statistics[si], matches[idx].home)
       IN  IF loc.err = "none"
           THEN real_stats' = loc.stats /\ si' = si + 1 /\ UNCHANGED <<pc, raised>>
           ELSE pc' = "extract_raised" /\ raised' = loc.err /\ UNCHANGED <<real_stats, si>>
    /\ UNCHANGED bi
    /\ ExtractUnchanged

\* line 85: the inner loop is exhausted
LeaveBlock ==
    /\ pc = "extract"
    /\ bi <= Len(payload)
    /\ si > Len(payload[bi].statistics)
    /\ bi' = bi + 1
    /\ si' = 0
    /\ UNCHANGED <<pc, raised, real_stats>>
    /\ ExtractUnchanged

\* line 82: the outer loop is exhausted; lines 102-109 pack the record
ExtractEnd ==
    /\ pc = "extract"
    /\ bi > Len(payload)
    /\ pc' = "extract_done"
    /\ UNCHANGED <<raised, real_stats, bi, si>>
    /\ ExtractUnchanged

NextExtract == EnterBlock \/ ExtractEntry \/ LeaveBlock \/ ExtractEnd

SpecExtract == InitExtract /\ [][NextExtract]_vars

\* the walk and the fold used by the poll pass compute the same record
WalkAgreesWithExtract ==
    LET loc == Extract(payload, matches[idx].home)
    IN  /\ pc = "extract_done" => loc.err = "none" /\ real_stats = loc.stats
        /\ pc = "extract_raised" => loc.err = raised

----------------------------------------------------------------------------
(* Properties of the poll loop and of a poll pass (specification Spec) *)

\* match k of the current pass went through the whole loop body without raising
Completed(k) ==
    /\ k \in DOMAIN results
    /\ \/ k < idx
       \/ k = idx /\ pc = "sleeping" /\ raised = "none"

NotificationsFor(k) == {j \in DOMAIN sent : sent[j].idx = k}

\* C1: an exception raised anywhere in a pass is caught by the loop: the pass
\* counts as ended, the loop is in its sleep, the only step it can take from
\* there is one completed sleep followed by the start of the next pass, and
\* that step is possible.
C1_ExceptionCaught ==
    /\ [](raised # "none" => pc = "sleeping" /\ endedNo = passNo)
    /\ [](raised # "none" /\ passNo < MaxPasses => ENABLED SleepReturn)
    /\ [][raised # "none" =>
            pc' = "await_live" /\ passNo' = passNo + 1 /\ sleepNo' = sleepNo + 1]_vars
    /\ [](prevRaised # "none" => passNo >= 2 /\ sleepNo = passNo - 1)

C1_Witness == prevRaised = "score_error" /\ pc = "await_stats" /\ passNo = 2

\* C2: a match that was processed without error has exactly one notification
\* in this pass when its probability is >= the threshold, carrying both team
\* names and the probability as a percentage, and none when it is below.
C2_OneNotificationPerQualifyingMatch ==
    \A k \in DOMAIN results :
        /\ Cardinality(NotificationsFor(k)) <= 1
        /\ Completed(k) =>
              IF results[k].prob >= DEFAULT_THRESHOLD
              THEN /\ Cardinality(NotificationsFor(k)) = 1
                   /\ \A j \in NotificationsFor(k) :
                         /\ sent[j].text.home = matches[k].home
                         /\ sent[j].text.away = matches[k].away
                         /\ sent[j].text.pct.frac \in 0 .. 99
                         /\ 100 * sent[j].text.pct.whole + sent[j].text.pct.frac
                               = results[k].prob
              ELSE NotificationsFor(k) = {}

C2_Witness ==
    /\ Len(results) = 2 /\ Completed(1) /\ Completed(2)
    /\ DEFAULT_THRESHOLD = 7000
    /\ results[1].prob = 7000 /\ results[2].prob = 3000
    /\ Len(sent) = 1 /\ sent[1].idx = 1

\* C3: a failing data-source call, by status or by transport error, yields an
\* empty list and the pass is not aborted by it.
C3_SourceFailureRecovered ==
    /\ raised \notin {"live_transport", "stats_transport"}
    /\ liveKind \in {"status", "transport"} => matches = <<>> /\ raised = "none"

\* C4: at most one pass is in flight and one task runs the loop; pass N+1
\* starts only when pass N has ended and the sleep after it has completed.
C4_PassesSequential ==
    /\ [](/\ tasks <= 1
          /\ passNo - endedNo \in {0, 1}
          /\ (passNo - endedNo = 1) <=> (pc \in InPass)
          /\ passNo >= 1 => sleepNo = passNo - 1)
    /\ [][passNo' # passNo =>
            /\ passNo' = passNo + 1
            /\ endedNo = passNo
            /\ passNo >= 1 => pc = "sleeping" /\ sleepNo' = sleepNo + 1]_vars

C4_Witness == passNo = 2 /\ endedNo = 1 /\ sleepNo = 1 /\ pc = "await_send"

\* C5 as stated: for every threshold, a statistics fetch that fails with a
\* non-success status gives the all-zero record, probability 0 and no
\* notification for that match.
C5_FailedStatsNeverAlert ==
    \A k \in DOMAIN results :
        results[k].kind = "status" =>
            /\ results[k].stats = ZeroStats
            /\ results[k].prob = 0
            /\ NotificationsFor(k) = {}
            /\ ~(pc = "await_send" /\ idx = k)

\* C5 amended: the record is all zeros and the probability 0 for every
\* threshold; no notification is sent for that match when the threshold is
\* greater than 0.
C5_FailedStatsNoAlertAbovePositiveThreshold ==
    \A k \in DOMAIN results :
        results[k].kind = "status" =>
            /\ results[k].stats = ZeroStats
            /\ results[k].prob = 0
            /\ DEFAULT_THRESHOLD > 0 =>
                  /\ NotificationsFor(k) = {}
                  /\ ~(pc = "await_send" /\ idx = k)

C5_Witness ==
    /\ DEFAULT_THRESHOLD = 7000
    /\ Len(results) = 2 /\ Completed(2)
    /\ results[1].kind = "status" /\ results[2].kind = "ok"
    /\ Len(sent) = 1 /\ sent[1].idx = 2

\* C6: when the live-match fetch returns a non-success status the pass has no
\* matches, issues no statistics fetch and no notification, calls the live
\* fetch once only, and ends without raising.
C6_FailedLiveFetchEmptyPass ==
    liveKind = "status" =>
        /\ matches = <<>>
        /\ calls = [live |-> 1, stats |-> 0, send |-> 0]
        /\ sent = <<>>
        /\ results = <<>>
        /\ raised = "none"
        /\ pc = "sleeping"
        /\ endedNo = passNo

C6_Witness == liveKind = "status" /\ pc = "sleeping" /\ passNo = 2 /\ prevRaised = "none"

----------------------------------------------------------------------------
(* Properties of compute_goal_probability (specification SpecScore) *)

Scored == pc \in {"score_alert", "score_quiet"}

NonNegative(stats) == \A f \in FieldNames : stats[f].n >= 0

\* C7: for a record with six non-negative fields the probability is in
\* [0, 1], and for the all-zero record it is exactly 0.
C7_ProbabilityInRange ==
    Scored =>
        /\ NonNegative(real_stats) => prob >= 0 /\ prob <= 10000
        /\ real_stats = ZeroStats => prob = 0

C7_Witness ==
    /\ Scored
    /\ NonNegative(real_stats)
    /\ 25 * (real_stats.xG_home.n + real_stats.xG_away.n) > 10000
    /\ prob = 10000

\* the record of the two worked examples, with the given expected goals
Example(xh, xa) ==
    [xG_home |-> Num(xh), xG_away |-> Num(xa),
     shots_on_home |-> Num(4), shots_on_away |-> Num(2),
     attacks_home |-> Num(10), attacks_away |-> Num(5)]

\* C8: the probability is min((0.5*xG + 0.05*shots + 0.01*attacks) / 2, 1.0)
\* over the summed sides; xG 1.0/0.5, shots 4/2, attacks 10/5 give 0.6 and no
\* alert at threshold 0.7, and the same with xG 2.0/1.0 give 0.975 and an
\* alert whose text shows 97.50%.
C8_ProbabilityFormula ==
    Scored =>
        LET xg == real_stats.xG_home.n + real_stats.xG_away.n
            shots == real_stats.shots_on_home.n + real_stats.shots_on_away.n
            attacks == real_stats.attacks_home.n + real_stats.attacks_away.n
            weighted == 50 * xg + 500 * shots + 100 * attacks
        IN  /\ 2 * prob = IF weighted <= 20000 THEN weighted ELSE 20000
            /\ (real_stats = Example(100, 50) /\ DEFAULT_THRESHOLD = 7000) =>
                  prob = 6000 /\ pc = "score_quiet" /\ message = NoMessage
            /\ (real_stats = Example(200, 100) /\ DEFAULT_THRESHOLD = 7000) =>
                  /\ prob = 9750
                  /\ pc = "score_alert"
                  /\ message.pct = [whole |-> 97, frac |-> 50]

C8_Witness ==
    /\ real_stats = Example(200, 100)
    /\ DEFAULT_THRESHOLD = 7000
    /\ pc = "score_alert"

Deltas == {1, 10, 100}

\* C9: raising one of the six fields, the others held fixed, never lowers the
\* probability.
C9_Monotone ==
    Scored =>
        \A f \in FieldNames : \A d \in Deltas :
            compute_goal_probability([real_stats EXCEPT ![f] = Num(real_stats[f].n + d)])
                >= prob

C9_Witness ==
    /\ Scored
    /\ real_stats.xG_away.n > 0
    /\ prob < 10000
    /\ compute_goal_probability([real_stats EXCEPT !.xG_away = Num(real_stats.xG_away.n + 100)])
          > prob

----------------------------------------------------------------------------
(* Properties of the extraction loop (specification SpecExtract) *)

\* the wire value with null read as 0
ValueOrZero(v) == IF v.tag = "null" THEN Num(0) ELSE v

HomeField(type) ==
    IF type = "Shots on Goal" THEN "shots_on_home"
    ELSE IF type = "Attacks" THEN "attacks_home" ELSE "xG_home"

AwayField(type) ==
    IF type = "Shots on Goal" THEN "shots_on_away"
    ELSE IF type = "Attacks" THEN "attacks_away" ELSE "xG_away"

\* C10: a recognised stat entry of a block whose team name is the fixture's
\* home name sets the home field of that stat and leaves the away field as it
\* was; under any other team name it sets the away field and leaves the home
\* field as it was.
C10_SideAssignment ==
    [][(pc = "extract" /\ si >= 1 /\ si' = si + 1
          /\ payload[bi].statistics[si].type \in {"Shots on Goal", "Attacks", "xG"}) =>
        LET e == payload[bi].statistics[si]
            hf == HomeField(e.type)
            af == AwayField(e.type)
        IN  IF payload[bi].team = matches[idx].home
            THEN real_stats'[hf] = ValueOrZero(e.value) /\ real_stats'[af] = real_stats[af]
            ELSE real_stats'[af] = ValueOrZero(e.value) /\ real_stats'[hf] = real_stats[hf]]_vars

C10_Witness ==
    /\ pc = "extract" /\ bi = 2 /\ si = 2
    /\ payload[1].wf /\ payload[1].team = matches[idx].home
    /\ payload[1].statistics = <<[type |-> "Attacks", value |-> Null]>>
    /\ payload[2].team \notin {matches[idx].home, matches[idx].away}
    /\ payload[2].statistics = <<[type |-> "Attacks", value |-> Num(2)]>>
    /\ real_stats.attacks_away = Num(2)
    /\ real_stats.attacks_home = Num(0)


Recognised == {"Shots on Goal", "Attacks", "xG"}

\* the positions <<block, entry>> of the payload
Positions == {<<b, s>> \in (1 .. Len(payload)) \X (1 .. (MaxStats + 1)) :
                 s <= Len(payload[b].statistics)}

\* the field an entry at a position is meant for, by team name and stat type
FieldAt(pos) ==
    IF payload[pos[1]].team = matches[idx].home
    THEN HomeField(payload[pos[1]].statistics[pos[2]].type)
    ELSE AwayField(payload[pos[1]].statistics[pos[2]].type)

\* the positions whose entry is of a recognised type and meant for field f
Targeting(f) ==
    {pos \in Positions :
        /\ payload[pos[1]].statistics[pos[2]].type \in Recognised
        /\ FieldAt(pos) = f}

ValueAt(pos) == payload[pos[1]].statistics[pos[2]].value

\* C11: in the record of a walked payload a field that no entry was meant
\* for, or whose entries all carry null, is 0; an entry with a null value
\* leaves 0 in its field; and a payload of well-formed blocks never raises,
\* whichever stat types are missing from it.
C11_MissingOrNullIsZero ==
    /\ [](pc = "extract_done" =>
            \A f \in FieldNames :
                (\A pos \in Targeting(f) : ValueAt(pos) = Null) => real_stats[f] = Num(0))
    /\ []((\A b \in DOMAIN payload : payload[b].wf) => raised = "none" /\ pc # "extract_raised")
    /\ [][(pc = "extract" /\ si >= 1 /\ si' = si + 1
             /\ payload[bi].statistics[si].type \in Recognised
             /\ payload[bi].statistics[si].value = Null) =>
                real_stats'[FieldAt(<<bi, si>>)] = Num(0)]_vars

C11_Witness ==
    /\ pc = "extract_done"
    /\ Len(payload) = 2
    /\ payload[1].team = matches[idx].home
    /\ payload[1].statistics = <<[type |-> "Shots on Goal", value |-> Null]>>
    /\ payload[2].team = matches[idx].away
    /\ payload[2].statistics = <<[type |-> "xG", value |-> Num(2)]>>
    /\ real_stats = [ZeroStats EXCEPT !.xG_away = Num(2)]


----------------------------------------------------------------------------
(* Properties of startup and configuration (specification Spec) *)

CredentialAbsent ==
    ~creds.TELEGRAM_BOT_TOKEN \/ ~creds.API_FOOTBALL_KEY \/ ~creds.TELEGRAM_CHAT_ID

\* C12: while one of the three credentials is absent the program is either
\* not yet started or stopped with the configuration error: no loop task
\* exists, no pass has started, and no data-source call or notification has
\* been made.
C12_StartupGuard ==
    CredentialAbsent =>
        /\ pc \in {"start", "config_error"}
        /\ tasks = 0
        /\ passNo = 0
        /\ calls = [live |-> 0, stats |-> 0, send |-> 0]
        /\ sent = <<>>

C12_Witness ==
    /\ pc = "config_error"
    /\ creds.TELEGRAM_BOT_TOKEN /\ creds.API_FOOTBALL_KEY /\ ~creds.TELEGRAM_CHAT_ID


\* C13: every alert decision uses a threshold in [0, 1], and no step of the
\* program changes the threshold read at startup.
C13_ThresholdInRangeAndFixed ==
    /\ [](results # <<>> => DEFAULT_THRESHOLD >= 0 /\ DEFAULT_THRESHOLD <= 10000)
    /\ [][DEFAULT_THRESHOLD' = DEFAULT_THRESHOLD]_vars

\* the part of C13 that the program keeps: the threshold never changes
ThresholdFixed == [][DEFAULT_THRESHOLD' = DEFAULT_THRESHOLD]_vars


----------------------------------------------------------------------------
(* Properties across passes and inside a pass (specification Spec) *)

\* the messages the first n results of this pass call for, from this pass's
\* match list, records and the threshold alone
RECURSIVE ExpectedSent(_)
ExpectedSent(n) ==
    IF n = 0 THEN <<>>
    ELSE IF results[n].prob >= DEFAULT_THRESHOLD
    THEN Append(ExpectedSent(n - 1),
                [idx |-> n,
                 text |-> [home |-> matches[n].home, away |-> matches[n].away,
                           pct |-> [whole |-> results[n].prob \div 100,
                                    frac |-> results[n].prob % 100],
                           stats |-> results[n].stats]])
    ELSE ExpectedSent(n - 1)

\* C14: the notifications of a pass that ended without raising are determined
\* by that pass's data and the threshold, and a qualifying match is notified
\* once in the pass even when its fixture was already notified in an earlier
\* pass.
C14_NoDedupAcrossPasses ==
    /\ (pc = "sleeping" /\ raised = "none") => sent = ExpectedSent(Len(results))
    /\ \A k \in DOMAIN results :
          (Completed(k) /\ results[k].prob >= DEFAULT_THRESHOLD /\ matches[k].id \in alerted)
              => Cardinality(NotificationsFor(k)) = 1

C14_Witness ==
    /\ passNo = 2 /\ prevRaised = "none"
    /\ pc = "sleeping" /\ raised = "none"
    /\ matches = <<FirstFixture>>
    /\ alerted = {1}
    /\ DEFAULT_THRESHOLD = 7000
    /\ Len(sent) = 1 /\ sent[1].idx = 1


----------------------------------------------------------------------------
(* The poll loop without a cap on the number of passes.  The pass counters *)
(* are restarted with every pass (sleepNo only tells whether a sleep came  *)
(* before the pass) and nothing is recorded about earlier passes, which    *)
(* keeps the states finite;                                                *)
(* every network call and every sleep that is awaited eventually returns   *)
(* or raises, and the event loop eventually runs a task that is ready.     *)

\* background_task, lines 124-126: analyze_matches is called once more
StartPassLive ==
    /\ pc' = "await_live"
    /\ passNo' = 1
    /\ endedNo' = 0
    /\ matches' = <<>>
    /\ idx' = 0
    /\ real_stats' = ZeroStats
    /\ prob' = 0
    /\ message' = NoMessage
    /\ sent' = <<>>
    /\ results' = <<>>
    /\ raised' = "none"
    /\ calls' = [NoCalls EXCEPT !.live = 1]
    /\ liveKind' = "pending"
    /\ UNCHANGED <<creds, DEFAULT_THRESHOLD, tasks, prevRaised, alerted, payload, bi, si>>

TaskStartLive == pc = "task_created" /\ StartPassLive /\ sleepNo' = 0

SleepReturnLive == LoopReady /\ StartPassLive /\ sleepNo' = 1

LiveReturns == \E resp \in LiveResponses : LiveReturn(resp)

StatsReturns == \E resp \in StatsResponses : StatsReturn(resp)

SendReturns == \E ok \in BOOLEAN : SendReturn(ok)

NextLive ==
    \/ Main
    \/ TaskStartLive
    \/ SleepReturnLive
    \/ LiveReturns
    \/ StatsReturns
    \/ SendReturns

SpecLive ==
    /\ Init
    /\ [][NextLive]_vars
    /\ WF_vars(TaskStartLive)
    /\ WF_vars(SleepReturnLive)
    /\ WF_vars(LiveReturns)
    /\ WF_vars(StatsReturns)
    /\ WF_vars(SendReturns)

\* C15: once the loop task exists its first pass begins, every pass that has
\* begun reaches the sleep, whether it returned or raised, and every sleep is
\* followed by the beginning of another pass: passes begin infinitely often.
C15_PassesKeepStarting ==
    /\ (pc = "task_created") ~> (pc = "await_live")
    /\ (pc \in InPass) ~> (pc = "sleeping")
    /\ (pc = "sleeping") ~> (pc = "await_live")

C15_Witness ==
    /\ pc = "await_send"
    /\ sleepNo = 1
    /\ idx = 2


\* C16: within a pass the n-th statistics fetch is for the n-th listed match,
\* each new fetch is for the position after the previous one, and the
\* notifications are sent in listing order.
C16_ListingOrder ==
    /\ [](pc = "await_stats" => idx \in DOMAIN matches /\ calls.stats = idx)
    /\ [](\A i, j \in DOMAIN sent : i < j => sent[i].idx < sent[j].idx)
    /\ [](pc = "await_send" => \A j \in DOMAIN sent : sent[j].idx < idx)
    /\ [][(passNo' = passNo /\ calls'.stats # calls.stats) =>
            calls'.stats = calls.stats + 1 /\ idx' = idx + 1 /\ pc' = "await_stats"]_vars

C16_Witness ==
    /\ Len(matches) = 2 /\ matches[1].id = 2 /\ matches[2].id = 1
    /\ pc = "sleeping" /\ raised = "none"
    /\ calls.stats = 2
    /\ Len(sent) = 2
    /\ sent[1].idx = 1 /\ sent[1].text.home = "B"
    /\ sent[2].idx = 2 /\ sent[2].text.home = "A"


\* what processing one listed match can raise
MatchFailures == {"bad_stats", "stats_transport", "score_error", "send_error"}

\* C17: when processing the match at position idx raises, the pass is over:
\* no statistics fetch was issued and no notification sent for a later
\* position, the raising step leaves the notifications already sent in
\* place and issues no fetch, and the next thing that happens is the end of
\* the sleep and a new pass that starts again from the live-match fetch.
C17_FailureAbortsRestOfPass ==
    /\ [](raised \in MatchFailures =>
            /\ pc = "sleeping"
            /\ idx \in DOMAIN matches
            /\ calls.stats = idx
            /\ Len(results) <= idx
            /\ \A j \in DOMAIN sent : sent[j].idx < idx)
    /\ [][(raised = "none" /\ raised' \in MatchFailures) =>
            sent' = sent /\ calls'.stats = calls.stats /\ idx' = idx]_vars
    /\ [][(raised \in MatchFailures) =>
            (passNo' = passNo + 1 /\ sleepNo' = sleepNo + 1 /\ pc' = "await_live"
               /\ calls' = [live |-> 1, stats |-> 0, send |-> 0])]_vars

C17_Witness ==
    /\ raised = "bad_stats"
    /\ Len(matches) = 2 /\ matches[2].wf
    /\ idx = 1
    /\ calls.stats = 1
    /\ sent = <<>>


----------------------------------------------------------------------------
(* Overwriting in the extraction loop (specification SpecExtract) *)

\* position p comes before position q in payload order
Before(p, q) == p[1] < q[1] \/ (p[1] = q[1] /\ p[2] < q[2])

\* the last position in payload order among a non-empty set of positions
LastOf(S) == CHOOSE p \in S : \A q \in S : q = p \/ Before(q, p)

\* C18: in the record of a walked payload every field that some entry was
\* meant for holds the value, null read as 0, of the last such entry in
\* payload order: a later value replaces an earlier one and a later null
\* puts the field back to 0.
C18_LastEntryWins ==
    pc = "extract_done" =>
        \A f \in FieldNames :
            Targeting(f) # {} => real_stats[f] = ValueOrZero(ValueAt(LastOf(Targeting(f))))

C18_Witness ==
    /\ pc = "extract_done"
    /\ Len(payload) = 2
    /\ payload[1].team = matches[idx].away
    /\ payload[1].statistics = <<[type |-> "Shots on Goal", value |-> Num(2)]>>
    /\ payload[2].team \notin {matches[idx].home, matches[idx].away}
    /\ payload[2].statistics = <<[type |-> "Shots on Goal", value |-> Null]>>
    /\ real_stats = ZeroStats


----------------------------------------------------------------------------
(* Network operations in flight (specification Spec) *)

\* calls of this pass that have returned or raised, per kind
LiveReturned == IF liveKind \in {"ok", "status", "transport"} THEN 1 ELSE 0

StatsReturned ==
    Len(results) + (IF raised \in {"stats_transport", "bad_stats", "score_error"} THEN 1 ELSE 0)

SendReturned == Len(sent) + (IF raised = "send_error" THEN 1 ELSE 0)

\* calls of this pass that were issued and have not yet returned or raised
Outstanding ==
    (calls.live - LiveReturned) + (calls.stats - StatsReturned) + (calls.send - SendReturned)

\* C19: in a pass at most one network operation is outstanding; a statistics
\* fetch is issued only after the live-match fetch returned a list, and while
\* the fetch for position idx is outstanding every earlier position has its
\* decision taken and, where it qualified, its notification delivered.
C19_OneOperationAtATime ==
    /\ Outstanding \in {0, 1}
    /\ (Outstanding = 1) <=> (pc \in InPass)
    /\ calls.stats > 0 => liveKind = "ok"
    /\ pc = "await_stats" =>
          /\ Len(results) = idx - 1
          /\ calls.send = Len(sent)
          /\ \A k \in DOMAIN results :
                results[k].prob >= DEFAULT_THRESHOLD => NotificationsFor(k) # {}
    /\ pc = "await_send" => calls.stats = idx /\ Len(results) = idx

C19_Witness ==
    /\ pc = "await_stats"
    /\ idx = 2
    /\ calls = [live |-> 1, stats |-> 2, send |-> 1]
    /\ Len(sent) = 1
    /\ Outstanding = 1

====
